---- MODULE Spec2Model ----
(***************************************************************************)
(* A model of pyinhdl (src/pyinhdl.py): a preprocessor that runs the       *)
(* Python snippets embedded in an HDL document and splices what they       *)
(* produce back into the text.                                             *)
(*                                                                         *)
(* Text is a sequence of one-character strings.  The Python interpreter    *)
(* the program calls (compile, eval, exec, str) is modelled for a small    *)
(* language of snippets, listed at PyExprForms; the program's own code     *)
(* (exec_inline, exec_block, pre_context_run, parse) is translated         *)
(* statement by statement.                                                 *)
(***************************************************************************)
EXTENDS Integers, Sequences, FiniteSets, TLC

(***************************************************************************)
(* Bounds of the model.                                                    *)
(***************************************************************************)
\* longest document (in lines) a pass of Spec reads
MaxLines == 4
\* longest document a pass of SpecBlocks reads
MaxBlockLines == 4
\* longest document a pass of SpecPasses reads
MaxPassLines == 3
\* number of passes (calls of parse) in one process, in SpecPasses
MaxPasses == 2
\* longest document a pass of SpecPaths reads
MaxPathLines == 1
\* most search paths one call of parse is given, in SpecPaths
MaxPathes == 2
\* highest number of a capture buffer, in SpecNested
MaxStreams == 3
\* number of calls of exec_inline and exec_block, in SpecNested
MaxCalls == 2
\* number of prints of one snippet, in SpecNested
MaxOwn == 2

(***************************************************************************)
(* Characters and the str methods the program uses (strip, lstrip,         *)
(* startswith, split, rjust, in), over the whitespace the documents use.   *)
(***************************************************************************)
\* the marker character (the backquote, which a TLA+ string cannot hold)
BT == "#"
\* the block fence: three marker characters
Fence == <<BT, BT, BT>>
SP == " "
NL == "\n"

IsSpace(c) == c \in {SP, NL}

Contains(s, c) == \E i \in 1..Len(s) : s[i] = c

RECURSIVE LStrip(_)
LStrip(s) ==
  IF s = <<>> THEN <<>>
  ELSE IF IsSpace(Head(s)) THEN LStrip(Tail(s)) ELSE s

RECURSIVE RStrip(_)
RStrip(s) ==
  IF s = <<>> THEN <<>>
  ELSE IF IsSpace(s[Len(s)]) THEN RStrip(SubSeq(s, 1, Len(s) - 1)) ELSE s

Strip(s) == RStrip(LStrip(s))

StartsWith(s, p) == Len(s) >= Len(p) /\ SubSeq(s, 1, Len(p)) = p

\* l[n:] : the slice from offset n, clamped to the length of l
SliceFrom(l, n) == IF n >= Len(l) THEN <<>> ELSE SubSeq(l, n + 1, Len(l))

\* "".rjust(n) : n spaces
RECURSIVE Spaces(_)
Spaces(n) == IF n <= 0 THEN <<>> ELSE <<SP>> \o Spaces(n - 1)

\* s.split(sep) for a one-character separator: always at least one piece
RECURSIVE SplitAcc(_, _, _)
SplitAcc(s, sep, cur) ==
  IF s = <<>> THEN <<cur>>
  ELSE IF Head(s) = sep THEN <<cur>> \o SplitAcc(Tail(s), sep, <<>>)
  ELSE SplitAcc(Tail(s), sep, Append(cur, Head(s)))

Split(s, sep) == SplitAcc(s, sep, <<>>)

RECURSIVE Concat(_)
Concat(ss) == IF ss = <<>> THEN <<>> ELSE Head(ss) \o Concat(Tail(ss))

(***************************************************************************)
(* Python values and their text form.                                      *)
(***************************************************************************)
MkInt(n) == [t |-> "int", n |-> n, s |-> <<>>]
MkStr(s) == [t |-> "str", n |-> 0, s |-> s]
NoneV == [t |-> "NoneType", n |-> 0, s |-> <<>>]
SysModule == [t |-> "module", n |-> 0, s |-> <<"s", "y", "s">>]
Builtins == [t |-> "module", n |-> 0, s |-> <<"b", "u", "i", "l", "t", "i", "n", "s">>]

DigitChar == <<"0", "1", "2", "3", "4", "5", "6", "7", "8", "9">>

\* str(v)
PyStr(v) ==
  CASE v.t = "int" -> <<DigitChar[v.n + 1]>>
    [] v.t = "str" -> v.s
    [] v.t = "NoneType" -> <<"N", "o", "n", "e">>
    [] OTHER -> <<"<", "m", ">">>

\* bool(v) is False
Falsy(v) ==
  \/ v.t = "NoneType"
  \/ v.t = "int" /\ v.n = 0
  \/ v.t = "str" /\ v.s = <<>>

\* a dict : a function from the names it binds to their values
EmptyDict == [k \in {} |-> NoneV]
DictSet(d, k, v) == [j \in DOMAIN d \cup {k} |-> IF j = k THEN v ELSE d[j]]

\* eval() and exec() put __builtins__ into the globals they are given
WithBuiltins(d) ==
  IF "__builtins__" \in DOMAIN d THEN d ELSE DictSet(d, "__builtins__", Builtins)

(***************************************************************************)
(* The snippet language.  Expressions: the name x, the literals 0, 1 and   *)
(* the empty string, the division 1/0 (raises ZeroDivisionError) and three *)
(* calls of print, written as one character each: P is print of the text   *)
(* p, Q is print of a space followed by q, B is print of nothing (a blank  *)
(* line).  Statements: an expression, or x=<expression>; several on a line *)
(* are separated by semicolons.  Anything else is a SyntaxError.           *)
(***************************************************************************)
PyExprForms ==
  { <<"x">>, <<"0">>, <<"1">>, <<"'", "'">>, <<"1", "/", "0">>,
    <<"P">>, <<"Q">>, <<"B">> }

IsExpr(e) == e \in PyExprForms

IsAssign(st) == Len(st) >= 3 /\ st[1] = "x" /\ st[2] = "=" /\ IsExpr(SliceFrom(st, 2))

IsStmt(st) == IsExpr(st) \/ IsAssign(st)

\* trailing blanks of a logical line do not count
RECURSIVE RStripSpaces(_)
RStripSpaces(s) ==
  IF s = <<>> THEN <<>>
  ELSE IF s[Len(s)] = SP THEN RStripSpaces(SubSeq(s, 1, Len(s) - 1)) ELSE s

RECURSIVE LStripSpaces(_)
LStripSpaces(s) ==
  IF s = <<>> THEN <<>>
  ELSE IF Head(s) = SP THEN LStripSpaces(Tail(s)) ELSE s

\* the simple statements of one logical line; ok is FALSE when the line is
\* indented (unexpected indent) or is no list of statements
\* a single trailing semicolon is allowed
DropLastEmpty(pieces) ==
  IF Len(pieces) >= 2
  THEN IF LStripSpaces(pieces[Len(pieces)]) = <<>>
       THEN SubSeq(pieces, 1, Len(pieces) - 1) ELSE pieces
  ELSE pieces

StripEach(pieces) == [i \in 1..Len(pieces) |-> RStripSpaces(LStripSpaces(pieces[i]))]

StmtList(body, stmts) ==
  IF body = <<>> THEN [ok |-> TRUE, stmts |-> <<>>]
  ELSE IF Head(body) = SP THEN [ok |-> FALSE, stmts |-> <<>>]
  ELSE IF \A i \in 1..Len(stmts) : IsStmt(stmts[i])
       THEN [ok |-> TRUE, stmts |-> stmts]
       ELSE [ok |-> FALSE, stmts |-> <<>>]

BodyStmts(body) == StmtList(body, StripEach(DropLastEmpty(Split(body, ";"))))

LineStmts(line) == BodyStmts(RStripSpaces(line))

\* compile(src, ..., 'exec') : the statements of src in order, or a
\* SyntaxError (IndentationError is one) when some line is no statement list
ParseLines(lines) == [i \in 1..Len(lines) |-> LineStmts(lines[i])]

JoinParsed(parsed) ==
  IF \A i \in 1..Len(parsed) : parsed[i].ok
  THEN [ok |-> TRUE, stmts |-> Concat([i \in 1..Len(parsed) |-> parsed[i].stmts])]
  ELSE [ok |-> FALSE, stmts |-> <<>>]

CompileExec(src) == JoinParsed(ParseLines(Split(src, NL)))

\* compile(src, ..., 'eval') : src is one expression, blanks after it allowed
ExprOf(body) ==
  IF IsExpr(body) THEN [ok |-> TRUE, expr |-> body] ELSE [ok |-> FALSE, expr |-> <<>>]

CompileEval(src) == ExprOf(RStrip(src))

(***************************************************************************)
(* Evaluation.  A result carries the value, the text the code printed to   *)
(* sys.stdout, the exception raised (the empty string when none) and the   *)
(* loads and stores of names it made, in order (a miss is a load of a name *)
(* the globals do not bind: it raises NameError).                          *)
(***************************************************************************)
NoExc == ""

Load(d, k) == [op |-> "load", name |-> k, val |-> d[k]]
Store(k, v) == [op |-> "store", name |-> k, val |-> v]
Miss(k) == [op |-> "miss", name |-> k, val |-> NoneV]

Value(v) == [val |-> v, printed |-> <<>>, exc |-> NoExc, ops |-> <<>>]
Printed(txt) == [val |-> NoneV, printed |-> txt, exc |-> NoExc, ops |-> <<>>]
Raised(e) == [val |-> NoneV, printed |-> <<>>, exc |-> e, ops |-> <<>>]

\* the value of expression e in the globals d
PyEvalExpr(e, d) ==
  CASE e = <<"x">> ->
         IF "x" \in DOMAIN d
         THEN [Value(d["x"]) EXCEPT !.ops = <<Load(d, "x")>>]
         ELSE [Raised("NameError") EXCEPT !.ops = <<Miss("x")>>]
    [] e = <<"0">> -> Value(MkInt(0))
    [] e = <<"1">> -> Value(MkInt(1))
    [] e = <<"'", "'">> -> Value(MkStr(<<>>))
    [] e = <<"1", "/", "0">> -> Raised("ZeroDivisionError")
    [] e = <<"P">> -> Printed(<<"p", NL>>)
    [] e = <<"Q">> -> Printed(<<SP, "q", NL>>)
    [] e = <<"B">> -> Printed(<<NL>>)
    [] OTHER -> Raised("SyntaxError")

\* one simple statement run in the globals d
\* x = <the value r>
Assigned(d, r) ==
  IF r.exc # NoExc THEN [d |-> d, printed |-> r.printed, exc |-> r.exc, ops |-> r.ops]
  ELSE [d |-> DictSet(d, "x", r.val), printed |-> r.printed, exc |-> NoExc,
        ops |-> Append(r.ops, Store("x", r.val))]

\* an expression statement: the value r is dropped
Evaluated(d, r) == [d |-> d, printed |-> r.printed, exc |-> r.exc, ops |-> r.ops]

PyExecStmt(st, d) ==
  IF IsAssign(st) THEN Assigned(d, PyEvalExpr(SliceFrom(st, 2), d))
  ELSE Evaluated(d, PyEvalExpr(st, d))

\* the statements run in order in the globals d, up to the first that raises
RECURSIVE PyExecStmts(_, _)
RECURSIVE PyExecRest(_, _)
PyExecStmts(stmts, d) ==
  IF stmts = <<>> THEN [d |-> d, printed |-> <<>>, exc |-> NoExc, ops |-> <<>>]
  ELSE PyExecRest(Tail(stmts), PyExecStmt(Head(stmts), d))

Sequenced(r, rest) ==
  [d |-> rest.d, printed |-> r.printed \o rest.printed,
   exc |-> rest.exc, ops |-> r.ops \o rest.ops]

\* the first statement gave r: the rest runs unless it raised
PyExecRest(stmts, r) ==
  IF r.exc # NoExc THEN r ELSE Sequenced(r, PyExecStmts(stmts, r.d))

(***************************************************************************)
(* Output streams.  Stream 0 is the stream sys.stdout names when the       *)
(* process starts; a StringIO is a new object, numbered above every stream *)
(* still installed.                                                        *)
(***************************************************************************)
RealStdout == 0
StringIO(installed) == installed + 1

(***************************************************************************)
(* exec_inline and exec_block.  gd is global_dict and so is sys.stdout at  *)
(* the call.  The result: ret, the string returned; gd and so as the call  *)
(* leaves them; printed, the text the code printed; passed, the part of it  *)
(* that went to the stream installed at the call rather than to a capture  *)
(* buffer; exc, the exception that left the call; mode, val and ops        *)
(* describe the evaluation.                                                *)
(***************************************************************************)
\* res = eval(code, global_dict); return str(res)
EvalBranch(gd, so, r) ==
  [ret |-> IF r.exc = NoExc THEN PyStr(r.val) ELSE <<>>,
   gd |-> gd, so |-> so, printed |-> r.printed, passed |-> r.printed,
   exc |-> r.exc, mode |-> "eval", val |-> r.val, ops |-> r.ops]

\* old_stdout = sys.stdout; s = io.StringIO(); sys.stdout = s; exec(...);
\* res = s.getvalue(); s.close(); sys.stdout = old_stdout; return res.
\* r is what exec did: an exception leaves before sys.stdout = old_stdout
Captured(old_stdout, s, r) ==
  [ret |-> IF r.exc = NoExc THEN r.printed ELSE <<>>,
   gd |-> r.d, so |-> IF r.exc = NoExc THEN old_stdout ELSE s,
   printed |-> r.printed, passed |-> <<>>, exc |-> r.exc, mode |-> "exec",
   val |-> NoneV, ops |-> r.ops]

\* compile(src, ..., 'exec') raised: nothing was run or redirected
CompileFailed(gd, so) ==
  [ret |-> <<>>, gd |-> gd, so |-> so, printed |-> <<>>, passed |-> <<>>,
   exc |-> "SyntaxError", mode |-> "none", val |-> NoneV, ops |-> <<>>]

\* (mutant) the statement parse is tried first, the expression parse second
InlineDispatch_ExecFirst(asExpr, asExec, gd, so) ==
  IF asExec.ok
  THEN Captured(so, StringIO(so), PyExecStmts(asExec.stmts, WithBuiltins(gd)))
  ELSE IF asExpr.ok
  THEN EvalBranch(WithBuiltins(gd), so, PyEvalExpr(asExpr.expr, WithBuiltins(gd)))
  ELSE CompileFailed(gd, so)

InlineDispatch(asExpr, asExec, gd, so) ==
  IF asExpr.ok
  THEN EvalBranch(WithBuiltins(gd), so, PyEvalExpr(asExpr.expr, WithBuiltins(gd)))
  ELSE IF ~asExec.ok THEN CompileFailed(gd, so)
  ELSE Captured(so, StringIO(so), PyExecStmts(asExec.stmts, WithBuiltins(gd)))

exec_inline(src, gd, so) == InlineDispatch(CompileEval(src), CompileExec(src), gd, so)

\* exec(src, global_dict) compiles src itself, after the redirection
ExecSource(code, gd) ==
  IF code.ok THEN PyExecStmts(code.stmts, WithBuiltins(gd))
  ELSE [d |-> gd, printed |-> <<>>, exc |-> "SyntaxError", ops |-> <<>>]

\* (mutant) the block runs in a copy of the globals
exec_block_OwnGlobals(src, gd, so) ==
  [Captured(so, StringIO(so), ExecSource(CompileExec(src), gd)) EXCEPT !.gd = gd]

exec_block(src, gd, so) == Captured(so, StringIO(so), ExecSource(CompileExec(src), gd))

(***************************************************************************)
(* pre_context_run.  A search path is text; it is pasted between double    *)
(* quotes into a statement, so a path holding a double quote makes the     *)
(* statement a SyntaxError.  (The paths of the model hold no backslash.)   *)
(***************************************************************************)
DQ == "\""

RECURSIVE InsertPathes(_, _)
InsertPathes(pathes, sp) ==
  IF pathes = <<>> THEN [sp |-> sp, exc |-> NoExc]
  ELSE IF Contains(Head(pathes), DQ) THEN [sp |-> sp, exc |-> "SyntaxError"]
  ELSE \* sys.path.insert(0, path)
       InsertPathes(Tail(pathes), <<Head(pathes)>> \o sp)

ContextReady(gd1, r) == [gd |-> gd1, sp |-> r.sp, exc |-> r.exc]

\* (mutant) the statement that imports sys is not run
pre_context_run_NoImport(import_pathes, gd, sp) ==
  ContextReady(WithBuiltins(gd), InsertPathes(import_pathes, sp))

pre_context_run(import_pathes, gd, sp) ==
  ContextReady(DictSet(WithBuiltins(gd), "sys", SysModule), InsertPathes(import_pathes, sp))

(***************************************************************************)
(* parse: its helpers.                                                     *)
(***************************************************************************)
\* l[i:j]
Slice(l, i, j) == SubSeq(l, i + 1, j)

\* the index of the first marker of l at or after index i, 0 when none
RECURSIVE NextMarker(_, _)
NextMarker(l, i) ==
  IF i > Len(l) THEN 0
  ELSE IF l[i] = BT THEN i ELSE NextMarker(l, i + 1)

\* re.finditer of marker, non-markers, marker: the spans (start, end) of the
\* matches from index i on, leftmost first and not overlapping
RECURSIVE FindIter(_, _), FindClose(_, _), FindSpan(_, _, _)
FindIter(l, i) == FindClose(l, NextMarker(l, i))

\* a is the index of an opening marker (0 when none is left)
FindClose(l, a) == IF a = 0 THEN <<>> ELSE FindSpan(l, a, NextMarker(l, a + 1))

\* (mutant) a closing marker also opens the next span
FindSpan_Overlap(l, a, b) ==
  IF b = 0 THEN <<>> ELSE <<[start |-> a - 1, end |-> b]>> \o FindIter(l, b)

FindSpan(l, a, b) ==
  IF b = 0 THEN <<>> ELSE <<[start |-> a - 1, end |-> b]>> \o FindIter(l, b + 1)

\* parse.add_space
RECURSIVE AddSpaceLoop(_, _, _)
AddSpaceLoop(pieces, _indentation, ans) ==
  IF pieces = <<>> THEN ans
  ELSE IF Strip(Head(pieces)) = <<>>
  THEN AddSpaceLoop(Tail(pieces), _indentation, ans)
  ELSE AddSpaceLoop(Tail(pieces), _indentation,
                    ans \o Spaces(_indentation) \o Head(pieces) \o <<NL>>)

\* (mutant) blank lines are kept
RECURSIVE AddSpaceAll(_, _, _)
AddSpaceAll(pieces, _indentation, ans) ==
  IF pieces = <<>> THEN ans
  ELSE AddSpaceAll(Tail(pieces), _indentation,
                   ans \o Spaces(_indentation) \o Head(pieces) \o <<NL>>)

add_space_KeepBlank(s, _indentation) == AddSpaceAll(Split(s, NL), _indentation, <<>>)

add_space(s, _indentation) == AddSpaceLoop(Split(s, NL), _indentation, <<>>)

\* (mutant) an empty result becomes the text of None
OrEmpty_None(res) == IF Len(res) = 0 THEN <<"N", "o", "n", "e">> ELSE res

\* if not res: res = ""
OrEmpty(res) == IF Len(res) = 0 THEN <<>> ELSE res

\* l.strip().startswith(fence)
IsFenceLine(l) == StartsWith(Strip(l), Fence)

\* len(l) - len(l.lstrip())
LeadingSpace(l) == Len(l) - Len(LStrip(l))

\* one record of the evaluation log: the call made for input line at with
\* stream so0 installed, what it evaluated, printed and returned, the stream
\* it left installed, and the text put into the output for it
EvalRecord(at, fn, src, so0, r, put) ==
  [at |-> at, fn |-> fn, src |-> src, mode |-> r.mode, val |-> r.val,
   ret |-> r.ret, exc |-> r.exc, put |-> put,
   so0 |-> so0, so |-> r.so, printed |-> r.printed, passed |-> r.passed,
   nops |-> Len(r.ops)]

\* one turn of the loop: snippet src at span i gave r
InlineStep(l, at, i, acc, src, r) ==
  [ans |-> IF r.exc = NoExc
           THEN acc.ans \o Slice(l, acc.pos, i.start) \o OrEmpty(r.ret)
           ELSE acc.ans,
   pos |-> IF r.exc = NoExc THEN i.end ELSE acc.pos,
   gd |-> r.gd, so |-> r.so, passed |-> acc.passed \o r.passed,
   exc |-> r.exc,
   evals |-> Append(acc.evals, EvalRecord(at, "exec_inline", src, acc.so, r, OrEmpty(r.ret))),
   ops |-> acc.ops \o r.ops]

InlineCall(l, at, i, acc, src) ==
  InlineStep(l, at, i, acc, src, exec_inline(src, acc.gd, acc.so))

\* (mutant) only the first snippet of a line is evaluated
InlineLoop_FirstOnly(l, at, codes_iter, acc) ==
  IF codes_iter = <<>> THEN acc
  ELSE InlineCall(l, at, Head(codes_iter), acc,
                  Slice(l, Head(codes_iter).start + 1, Head(codes_iter).end - 1))

\* the loop over the inline snippets of line l (number at); it stops at the
\* first snippet that raises
RECURSIVE InlineLoop(_, _, _, _)
InlineLoop(l, at, codes_iter, acc) ==
  IF codes_iter = <<>> THEN acc
  ELSE IF acc.exc # NoExc THEN acc
  ELSE InlineLoop(l, at, Tail(codes_iter),
         InlineCall(l, at, Head(codes_iter), acc,
                    Slice(l, Head(codes_iter).start + 1, Head(codes_iter).end - 1)))

(***************************************************************************)
(* State.  global_dict, sys_stdout and sys_path are the process globals    *)
(* the program uses; state, py_block_snippet and indentation are the       *)
(* locals of parse and import_pathes its argument; pc is where the caller  *)
(* of parse stands (idle, scan, returned or raised).  The rest is          *)
(* the record of the current pass: the lines read from fp, the writes to   *)
(* fp_out (each with the number of the line that caused it), the           *)
(* evaluations made, the loads and stores of names, the text that reached  *)
(* the real standard output, and how the pass ended.                       *)
(*                                                                         *)
(* frames, returns and calls serve the statement-level view of the         *)
(* capturing calls (SpecNested, below): the calls of exec_inline and       *)
(* exec_block in progress, innermost last, those that returned, and their  *)
(* number.                                                                 *)
(***************************************************************************)
VARIABLES pc, passes, global_dict, sys_stdout, sys_path,
          import_pathes, state, py_block_snippet, indentation,
          inp, out, evals, ops, console, error, raised_by,
          frames, returns, calls

vars == <<pc, passes, global_dict, sys_stdout, sys_path,
          import_pathes, state, py_block_snippet, indentation,
          inp, out, evals, ops, console, error, raised_by,
          frames, returns, calls>>

\* the variables of the statement-level view
nested == <<frames, returns, calls>>

\* sys.path of a fresh process: one entry stands for the interpreter's own
BasePath == <<<<"l", "i", "b">>>>

Init ==
  /\ pc = "idle"
  /\ passes = 0
  /\ global_dict = EmptyDict
  /\ sys_stdout = RealStdout
  /\ sys_path = BasePath
  /\ import_pathes = <<>>
  /\ state = "hdl"
  /\ py_block_snippet = <<>>
  /\ indentation = 0
  /\ inp = <<>>
  /\ out = <<>>
  /\ evals = <<>>
  /\ ops = <<>>
  /\ console = <<>>
  /\ error = NoExc
  /\ raised_by = ""
  /\ frames = <<>>
  /\ returns = <<>>
  /\ calls = 0

\* the text of fp_out: the writes in order
RECURSIVE TextOf(_)
TextOf(ws) == IF ws = <<>> THEN <<>> ELSE Head(ws).text \o TextOf(Tail(ws))

Write(at, text) == [at |-> at, text |-> text]

\* text printed while stream so was installed reaches the console only when
\* so is the real standard output
ToConsole(so, text) == IF so = RealStdout THEN console \o text ELSE console

(***************************************************************************)
(* parse is called (by the driver, once per document): the locals are set  *)
(* and pre_context_run runs.                                               *)
(***************************************************************************)
\* pre_context_run left r
ContextRun(r) ==
  /\ global_dict' = r.gd
  /\ sys_path' = r.sp
  /\ pc' = IF r.exc = NoExc THEN "scan" ELSE "raised"
  /\ error' = r.exc
  /\ raised_by' = IF r.exc = NoExc THEN "" ELSE "pre_context_run"

ParseBegin(pathes, maxpasses) ==
  /\ pc # "scan"
  /\ passes < maxpasses
  /\ passes' = passes + 1
  /\ import_pathes' = pathes
  /\ state' = "hdl"
  /\ py_block_snippet' = <<>>
  /\ indentation' = 0
  /\ ContextRun(pre_context_run(pathes, global_dict, sys_path))
  /\ inp' = <<>>
  /\ out' = <<>>
  /\ evals' = <<>>
  /\ ops' = <<>>
  /\ console' = <<>>
  /\ UNCHANGED sys_stdout
  /\ UNCHANGED nested

(***************************************************************************)
(* One iteration of the loop of parse, on the next line l of fp.           *)
(***************************************************************************)
\* state hdl, a fence line
OpenBlock(l) ==
  /\ state' = "block"
  /\ indentation' = LeadingSpace(l)
  /\ UNCHANGED <<pc, global_dict, sys_stdout, py_block_snippet, out, evals, ops,
                 console, error, raised_by>>

\* ans += l[pos:]
LineText(l, r) == r.ans \o SliceFrom(l, r.pos)

\* (mutant) the reconstructed line is written whatever it holds
InlineDone_WriteAll(l, at, r) ==
  /\ global_dict' = r.gd
  /\ sys_stdout' = r.so
  /\ evals' = evals \o r.evals
  /\ ops' = ops \o r.ops
  /\ console' = ToConsole(sys_stdout, r.passed)
  /\ out' = IF r.exc = NoExc THEN Append(out, Write(at, LineText(l, r))) ELSE out
  /\ pc' = IF r.exc = NoExc THEN "scan" ELSE "raised"
  /\ error' = r.exc
  /\ raised_by' = IF r.exc = NoExc THEN "" ELSE "exec_inline"
  /\ UNCHANGED <<state, py_block_snippet, indentation>>

\* (mutant) a line whose snippet raised is written as far as it got
InlineDone_WritePartial(l, at, r) ==
  /\ global_dict' = r.gd
  /\ sys_stdout' = r.so
  /\ evals' = evals \o r.evals
  /\ ops' = ops \o r.ops
  /\ console' = ToConsole(sys_stdout, r.passed)
  /\ out' = IF Strip(LineText(l, r)) # <<>>
            THEN Append(out, Write(at, LineText(l, r))) ELSE out
  /\ pc' = IF r.exc = NoExc THEN "scan" ELSE "raised"
  /\ error' = r.exc
  /\ raised_by' = IF r.exc = NoExc THEN "" ELSE "exec_inline"
  /\ UNCHANGED <<state, py_block_snippet, indentation>>

\* the loop over the snippets of l left r
InlineDone(l, at, r) ==
  /\ global_dict' = r.gd
  /\ sys_stdout' = r.so
  /\ evals' = evals \o r.evals
  /\ ops' = ops \o r.ops
  /\ console' = ToConsole(sys_stdout, r.passed)
  /\ out' = IF r.exc = NoExc
            THEN IF Strip(LineText(l, r)) # <<>>
                 THEN Append(out, Write(at, LineText(l, r))) ELSE out
            ELSE out
  /\ pc' = IF r.exc = NoExc THEN "scan" ELSE "raised"
  /\ error' = r.exc
  /\ raised_by' = IF r.exc = NoExc THEN "" ELSE "exec_inline"
  /\ UNCHANGED <<state, py_block_snippet, indentation>>

\* state hdl, a line with a marker
InlineLine(l) ==
  InlineDone(l, Len(inp) + 1,
    InlineLoop(l, Len(inp) + 1, FindIter(l, 1),
      [ans |-> <<>>, pos |-> 0, gd |-> global_dict, so |-> sys_stdout,
       passed |-> <<>>, exc |-> NoExc, evals |-> <<>>, ops |-> <<>>]))

\* (mutant) the plain branch suppresses blank lines as the inline branch does
PlainLine_SkipBlank(l) ==
  /\ out' = IF Strip(l) # <<>> THEN Append(out, Write(Len(inp) + 1, l)) ELSE out
  /\ UNCHANGED <<pc, global_dict, sys_stdout, state, py_block_snippet, indentation,
                 evals, ops, console, error, raised_by>>

\* state hdl, any other line
PlainLine(l) ==
  /\ out' = Append(out, Write(Len(inp) + 1, l))
  /\ UNCHANGED <<pc, global_dict, sys_stdout, state, py_block_snippet, indentation,
                 evals, ops, console, error, raised_by>>

\* (mutant) the accumulator and the indentation are not reset at the close
BlockDone_KeepBody(at, r, text) ==
  /\ global_dict' = r.gd
  /\ sys_stdout' = r.so
  /\ evals' = Append(evals, EvalRecord(at, "exec_block", py_block_snippet, sys_stdout, r, text))
  /\ ops' = ops \o r.ops
  /\ IF r.exc = NoExc
     THEN /\ out' = Append(out, Write(at, text))
          /\ state' = "hdl"
          /\ UNCHANGED <<pc, error, raised_by, py_block_snippet, indentation>>
     ELSE /\ pc' = "raised"
          /\ error' = r.exc
          /\ raised_by' = "exec_block"
          /\ UNCHANGED <<out, py_block_snippet, indentation, state>>
  /\ UNCHANGED console

\* exec_block left r, and text is its result re-indented
BlockDone(at, r, text) ==
  /\ global_dict' = r.gd
  /\ sys_stdout' = r.so
  /\ evals' = Append(evals, EvalRecord(at, "exec_block", py_block_snippet, sys_stdout, r, text))
  /\ ops' = ops \o r.ops
  /\ IF r.exc = NoExc
     THEN /\ out' = Append(out, Write(at, text))
          /\ py_block_snippet' = <<>>
          /\ indentation' = 0
          /\ state' = "hdl"
          /\ UNCHANGED <<pc, error, raised_by>>
     ELSE /\ pc' = "raised"
          /\ error' = r.exc
          /\ raised_by' = "exec_block"
          /\ UNCHANGED <<out, py_block_snippet, indentation, state>>
  /\ UNCHANGED console

BlockResult(at, r) == BlockDone(at, r, add_space(OrEmpty(r.ret), indentation))

\* state block, a fence line
CloseBlock(l) ==
  BlockResult(Len(inp) + 1, exec_block(py_block_snippet, global_dict, sys_stdout))

\* (mutant) the leading blanks are stripped, not indentation characters
BlockLine_LStrip(l) ==
  /\ py_block_snippet' = py_block_snippet \o LStripSpaces(l)
  /\ UNCHANGED <<pc, global_dict, sys_stdout, state, indentation, out, evals, ops,
                 console, error, raised_by>>

\* state block, any other line
BlockLine(l) ==
  /\ py_block_snippet' = py_block_snippet \o SliceFrom(l, indentation)
  /\ UNCHANGED <<pc, global_dict, sys_stdout, state, indentation, out, evals, ops,
                 console, error, raised_by>>

\* fp yields lines: every line but the last ends with a newline
EndsLine(l) == IF l = <<>> THEN FALSE ELSE l[Len(l)] = NL
MayFollow(l) == IF inp = <<>> THEN l # <<>> ELSE l # <<>> /\ EndsLine(inp[Len(inp)])

\* (mutant) in state hdl the marker test comes before the fence test
ReadLine_InlineFirst(l, maxlines) ==
  /\ pc = "scan"
  /\ Len(inp) < maxlines
  /\ MayFollow(l)
  /\ inp' = Append(inp, l)
  /\ IF state = "hdl"
     THEN IF Contains(l, BT) /\ Strip(l) # Fence THEN InlineLine(l)
          ELSE IF IsFenceLine(l) THEN OpenBlock(l)
          ELSE PlainLine(l)
     ELSE IF IsFenceLine(l) THEN CloseBlock(l)
          ELSE BlockLine(l)
  /\ UNCHANGED <<passes, sys_path, import_pathes>>
  /\ UNCHANGED nested

ReadLine(l, maxlines) ==
  /\ pc = "scan"
  /\ Len(inp) < maxlines
  /\ MayFollow(l)
  /\ inp' = Append(inp, l)
  /\ IF state = "hdl"
     THEN IF IsFenceLine(l) THEN OpenBlock(l)
          ELSE IF Contains(l, BT) THEN InlineLine(l)
          ELSE PlainLine(l)
     ELSE IF IsFenceLine(l) THEN CloseBlock(l)
          ELSE BlockLine(l)
  /\ UNCHANGED <<passes, sys_path, import_pathes>>
  /\ UNCHANGED nested

(***************************************************************************)
(* fp is exhausted: the context is dropped, and an open block is an error. *)
(***************************************************************************)
\* (mutant) the end of input in an open block goes unreported
ParseEnd_NoRaise ==
  /\ pc = "scan"
  /\ global_dict' = EmptyDict
  /\ pc' = "returned"
  /\ UNCHANGED <<passes, sys_stdout, sys_path, import_pathes, state,
                 py_block_snippet, indentation, inp, out, evals, ops, console,
                 error, raised_by>>
  /\ UNCHANGED nested

ParseEnd ==
  /\ pc = "scan"
  /\ global_dict' = EmptyDict
  /\ IF state = "block"
     THEN pc' = "raised" /\ error' = "SyntaxError" /\ raised_by' = "parse"
     ELSE pc' = "returned" /\ UNCHANGED <<error, raised_by>>
  /\ UNCHANGED <<passes, sys_stdout, sys_path, import_pathes, state,
                 py_block_snippet, indentation, inp, out, evals, ops, console>>
  /\ UNCHANGED nested

(***************************************************************************)
(* The documents.  Lines is the set of lines a document of Spec is made    *)
(* of: plain text, inline snippets of every kind, a fence (after which any *)
(* of the lines is block body), and a last line without its newline.       *)
(***************************************************************************)
Lines ==
  { <<"x", NL>>,                                    \* plain text
    <<NL>>,                                         \* an empty line
    <<"x">>,                                        \* a last line, no newline
    <<BT, "x", "=", "1", BT, NL>>,                  \* a statement, prints nothing
    <<"x", BT, "x", BT, SP, BT, "0", BT, BT, BT, BT, NL>>, \* three snippets, odd marker
    <<BT, "'", "'", BT, SP, BT, BT, NL>>,           \* empty results only
    <<BT, "x", "=", "1", ";", "P", BT, BT, "x", BT, BT, "P", BT, NL>>, \* printing
    <<BT, "0", BT, BT, "x", "=", "1", ";", "1", "/", "0", BT, NL>>, \* a statement raises
    <<SP, BT, NL>>,                                 \* a single marker
    <<BT, BT, BT, NL>> }                            \* a fence

\* Spec: one process, one document, no import path.
Next ==
  \/ ParseBegin(<<>>, 1)
  \/ \E l \in Lines : ReadLine(l, MaxLines)
  \/ ParseEnd

Spec == Init /\ [][Next]_vars

(***************************************************************************)
(* SpecBlocks: one process, one document made of blocks: fences at two     *)
(* indentations, one with text after the token, lines of code that print,  *)
(* and a line of inline snippets.                                          *)
(***************************************************************************)
BlockLines ==
  { <<BT, BT, BT, NL>>,                             \* a fence
    <<SP, BT, BT, BT, "x", BT, NL>>,                \* an indented fence, text after
    <<SP, "x", "=", "0", ";", "B", ";", "Q", NL>>,  \* code, indented by one
    <<"0", ";", "P", ";", "B", ";", "Q", NL>>,      \* code
    <<NL>>,                                         \* an empty line
    <<"x", BT, "x", BT, SP, BT, "0", BT, BT, BT, BT, NL>>, \* snippets, x is read
    <<BT, "x", "=", "1", ";", "P", BT, BT, "x", BT, BT, "P", BT, NL>> } \* snippets

NextBlocks ==
  \/ ParseBegin(<<>>, 1)
  \/ \E l \in BlockLines : ReadLine(l, MaxBlockLines)
  \/ ParseEnd

SpecBlocks == Init /\ [][NextBlocks]_vars

(***************************************************************************)
(* SpecPasses: one process runs parse on several documents, one after the  *)
(* other, as the driver does for a directory; a caller may also go on      *)
(* after a pass that raised.                                               *)
(***************************************************************************)
PassLines ==
  { <<"x", NL>>,                                    \* plain text
    <<"x", "=", "0", NL>>,                          \* plain text; in a block, code
    <<BT, "x", "=", "1", BT, NL>>,                  \* a statement
    <<BT, "x", BT, NL>>,                            \* an expression
    <<BT, "P", BT, NL>>,                            \* an expression that prints
    <<BT, "x", "=", "1", ";", "1", "/", "0", BT, NL>>,    \* a statement raises
    <<BT, BT, BT, NL>> }                            \* a fence

NextPasses ==
  \/ ParseBegin(<<>>, MaxPasses)
  \/ \E l \in PassLines : ReadLine(l, MaxPassLines)
  \/ ParseEnd

SpecPasses == Init /\ [][NextPasses]_vars

(***************************************************************************)
(* SpecPaths: the passes are given search paths.                           *)
(***************************************************************************)
Pathes == { <<"a">>, <<"b">>, <<"a", DQ>> }

RECURSIVE SeqsUpTo(_, _)
SeqsUpTo(S, n) ==
  IF n = 0 THEN {<<>>}
  ELSE SeqsUpTo(S, n - 1) \cup
       {Append(q, e) : q \in {r \in SeqsUpTo(S, n - 1) : Len(r) = n - 1}, e \in S}

PathLines ==
  { <<"x", NL>>,
    <<BT, "x", "=", "1", BT, BT, "x", BT, NL>> }

NextPaths ==
  \/ \E pathes \in SeqsUpTo(Pathes, MaxPathes) : ParseBegin(pathes, MaxPasses)
  \/ \E l \in PathLines : ReadLine(l, MaxPathLines)
  \/ ParseEnd

SpecPaths == Init /\ [][NextPaths]_vars

(***************************************************************************)
(* SpecNested: exec_inline (statement branch) and exec_block statement by  *)
(* statement, where the snippet a call runs may itself call one of them    *)
(* (the code it runs is arbitrary Python and can reach both functions).    *)
(* A frame holds the locals of a call: old_stdout and s, with the text in  *)
(* s; own is all the snippet of the call has printed itself.  An exception *)
(* in a snippet leaves every call in progress, none of which catches it.   *)
(***************************************************************************)
\* the locals of parse and the context play no part here
passvars == <<pc, passes, global_dict, sys_path, import_pathes, state,
              py_block_snippet, indentation, inp, out, evals, ops, error, raised_by>>

Frame(fn, old_stdout, s) ==
  [fn |-> fn, old_stdout |-> old_stdout, s |-> s, text |-> <<>>, own |-> <<>>]

\* old_stdout = sys.stdout; s = io.StringIO(); sys.stdout = s
Enter(fn) ==
  /\ calls < MaxCalls
  /\ StringIO(sys_stdout) <= MaxStreams
  /\ calls' = calls + 1
  /\ frames' = Append(frames, Frame(fn, sys_stdout, StringIO(sys_stdout)))
  /\ sys_stdout' = StringIO(sys_stdout)
  /\ UNCHANGED <<returns, console, passvars>>

\* the frames after the text c went to the stream so
WriteTo(so, c) ==
  [i \in 1..Len(frames) |->
     [frames[i] EXCEPT
        !.text = IF frames[i].s = so THEN @ \o c ELSE @,
        !.own = IF i = Len(frames) THEN @ \o c ELSE @]]

\* exec(code, global_dict): the snippet of the innermost call prints c
PrintIn(c) ==
  /\ frames # <<>>
  /\ Len(frames[Len(frames)].own) < Len(c) * MaxOwn
  /\ frames' = WriteTo(sys_stdout, c)
  /\ console' = ToConsole(sys_stdout, c)
  /\ UNCHANGED <<sys_stdout, returns, calls, passvars>>

Returned(f, so) ==
  [fn |-> f.fn, depth |-> Len(frames), s |-> f.s, old_stdout |-> f.old_stdout,
   res |-> f.text, own |-> f.own, so |-> so]

\* (mutant) one global slot: the stream restored is the real standard output
Return_RealStdout ==
  /\ frames # <<>>
  /\ sys_stdout' = RealStdout
  /\ returns' = Append(returns, Returned(frames[Len(frames)], RealStdout))
  /\ frames' = SubSeq(frames, 1, Len(frames) - 1)
  /\ UNCHANGED <<calls, console, passvars>>

\* res = s.getvalue(); s.close(); sys.stdout = old_stdout; return res
Return ==
  /\ frames # <<>>
  /\ sys_stdout' = frames[Len(frames)].old_stdout
  /\ returns' = Append(returns, Returned(frames[Len(frames)], frames[Len(frames)].old_stdout))
  /\ frames' = SubSeq(frames, 1, Len(frames) - 1)
  /\ UNCHANGED <<calls, console, passvars>>

\* exec raises: the lines after it are skipped, in every call in progress
RaiseIn ==
  /\ frames # <<>>
  /\ frames' = <<>>
  /\ UNCHANGED <<sys_stdout, returns, calls, console, passvars>>

NextNested ==
  \/ \E fn \in {"exec_inline", "exec_block"} : Enter(fn)
  \/ \E c \in {<<"p", NL>>, <<"q", NL>>} : PrintIn(c)
  \/ Return
  \/ RaiseIn

SpecNested == Init /\ [][NextNested]_vars

(***************************************************************************)
(* What the properties below read off a pass.  They are computed from the  *)
(* lines read and the log alone, not from the locals of parse.             *)
(***************************************************************************)
\* l is a fence: blanks, then three markers
FenceShaped(l) ==
  \E k \in 0..Len(l) :
    /\ k + 3 <= Len(l)
    /\ \A j \in 1..k : IsSpace(l[j])
    /\ \A j \in (k + 1)..(k + 3) : l[j] = BT

\* the number of blanks l starts with
LeadCount(l) ==
  CHOOSE k \in 0..Len(l) :
    /\ \A j \in 1..k : IsSpace(l[j])
    /\ IF k = Len(l) THEN TRUE ELSE ~IsSpace(l[k + 1])

\* the scan over lines from line i on, begun in state st with the block
\* (if any) opened by line open: the state after the last line, and the
\* line that opened the block still open
RECURSIVE ScanFold(_, _, _, _)
ScanFold(lines, i, st, open) ==
  IF i > Len(lines) THEN [st |-> st, open |-> open]
  ELSE IF FenceShaped(lines[i])
  THEN IF st = "hdl" THEN ScanFold(lines, i + 1, "block", i)
       ELSE ScanFold(lines, i + 1, "hdl", 0)
  ELSE ScanFold(lines, i + 1, st, open)

\* the scan just before line i is read
ScanBefore(i) == ScanFold(SubSeq(inp, 1, i - 1), 1, "hdl", 0)

\* the pass is over
Ended == pc \in {"returned", "raised"}
\* the pass read its input to the end
EndedAtEOF == pc = "returned" \/ (pc = "raised" /\ raised_by = "parse")
\* line i was processed to its end
Completed(i) == i < Len(inp) \/ pc = "scan" \/ EndedAtEOF

\* line i was read in state hdl, is no fence and holds a marker
IsInlineLine(i) ==
  /\ Contains(inp[i], BT)
  /\ ~FenceShaped(inp[i])
  /\ ScanBefore(i).st = "hdl"

\* the evaluations made for line i, and the writes it caused
EvalsAt(i) == SelectSeq(evals, LAMBDA e : e.at = i)
WritesAt(i) == SelectSeq(out, LAMBDA w : w.at = i)

\* line with its marker pairs (1st with 2nd, 3rd with 4th, ...) replaced by
\* the texts puts, in order; an unpaired last marker stays
Reconstructed(line, puts) ==
  LET pieces == Split(line, BT)
      m == Len(pieces) - 1
      pairs == m \div 2
      spliced == Concat([k \in 1..pairs |-> pieces[2 * k - 1] \o puts[k]])
  IN  IF m % 2 = 0 THEN spliced \o pieces[m + 1]
      ELSE spliced \o pieces[m] \o <<BT>> \o pieces[m + 1]

PutsAt(i) == LET e == EvalsAt(i) IN [k \in 1..Len(e) |-> e[k].put]

Blank(txt) == \A j \in 1..Len(txt) : IsSpace(txt[j])

Max(S) == CHOOSE m \in S : \A n \in S : n <= m

(***************************************************************************)
(* C1.  Identity: a document none of whose lines holds a marker is written *)
(* out line for line, unchanged and in order, with nothing else written,   *)
(* and its pass does not raise.                                            *)
(***************************************************************************)
NoMarkers == \A i \in 1..Len(inp) : ~Contains(inp[i], BT)

C1_Identity ==
  (pc # "idle" /\ NoMarkers) =>
    /\ pc # "raised"
    /\ Len(out) = Len(inp)
    /\ \A i \in 1..Len(inp) : out[i].text = inp[i] /\ out[i].at = i
    /\ TextOf(out) = Concat(inp)

\* a whole document of several different marker-free lines, one of them blank
C1_Witness ==
  /\ pc = "returned"
  /\ NoMarkers
  /\ Len(inp) >= 3
  /\ inp[1] # inp[2]
  /\ \E i \in 1..Len(inp) : Blank(inp[i])

(***************************************************************************)
(* C2.  Shared context: within a pass, a name stored by an earlier snippet *)
(* is bound for every later snippet, and a load of it yields the value of  *)
(* the last store.                                                         *)
(***************************************************************************)
StoresBefore(j) ==
  {i \in 1..(j - 1) : ops[i].op = "store" /\ ops[i].name = ops[j].name}

C2_SharedContext ==
  \A j \in 1..Len(ops) :
    (ops[j].op \in {"load", "miss"} /\ StoresBefore(j) # {}) =>
      /\ ops[j].op = "load"
      /\ ops[j].val = ops[Max(StoresBefore(j))].val

\* a block and an inline snippet store different values, and a later
\* snippet loads the second
C2_Witness ==
  /\ \E e \in 1..Len(evals) : evals[e].fn = "exec_block" /\ evals[e].exc = NoExc
  /\ \E i, j, k \in 1..Len(ops) :
       /\ i < j /\ j < k
       /\ ops[i].op = "store" /\ ops[j].op = "store" /\ ops[k].op = "load"
       /\ ops[i].val # ops[j].val
       /\ ops[k].val = ops[j].val
       /\ \A n \in (j + 1)..(k - 1) : ops[n].op # "store"

(***************************************************************************)
(* C3.  Context isolation across passes: when a pass starts reading, the   *)
(* context binds nothing but what pre_context_run seeds, however the pass  *)
(* before it ended.                                                        *)
(***************************************************************************)
Seeded == {"sys", "__builtins__"}

C3_Isolation == (pc = "scan" /\ inp = <<>>) => DOMAIN global_dict \subseteq Seeded

(***************************************************************************)
(* C4.  Teardown is unconditional: when a pass is over, however it ended,  *)
(* the context binds no name.                                              *)
(***************************************************************************)
C4_Teardown == Ended => DOMAIN global_dict = {}

(***************************************************************************)
(* C5.  Output-stream restoration: no step of a pass, and so no call of    *)
(* exec_inline or exec_block, leaves sys.stdout another stream than it     *)
(* found.                                                                  *)
(***************************************************************************)
C5_StdoutRestored == [][sys_stdout' = sys_stdout]_vars

(***************************************************************************)
(* C6.  Unclosed block: a pass that reads its input to the end while a     *)
(* block is open raises SyntaxError, has made no evaluation and no write   *)
(* for the opening fence or any line after it; one that ends outside a     *)
(* block returns.                                                          *)
(***************************************************************************)
OpenAt == ScanFold(inp, 1, "hdl", 0).open

C6_UnclosedBlock ==
  EndedAtEOF =>
    IF OpenAt > 0
    THEN /\ pc = "raised"
         /\ error = "SyntaxError"
         /\ \A k \in 1..Len(evals) : evals[k].at < OpenAt
         /\ \A k \in 1..Len(out) : out[k].at < OpenAt
    ELSE pc = "returned" /\ error = NoExc

\* text was written before the fence, and body lines came after it
C6_Witness ==
  /\ pc = "raised"
  /\ raised_by = "parse"
  /\ OpenAt > 1
  /\ Len(out) >= 1
  /\ Len(inp) >= OpenAt + 2
  /\ py_block_snippet # <<>>

(***************************************************************************)
(* C7.  Block re-indentation: what a closing fence writes is the non-blank *)
(* lines of the captured output, in order, each after N spaces and ended   *)
(* by a newline, N being the number of blanks the opening fence line       *)
(* starts with; no blank line of the captured output is written.           *)
(***************************************************************************)
HasInk(txt) == ~Blank(txt)

Indented(ls, n) == Concat([i \in 1..Len(ls) |-> Spaces(n) \o ls[i] \o <<NL>>])

\* the lines of a text that ends with a newline (or is empty)
WrittenLines(txt) ==
  IF txt = <<>> THEN <<>> ELSE SubSeq(Split(txt, NL), 1, Len(Split(txt, NL)) - 1)

C7_Reindent ==
  \A k \in 1..Len(evals) :
    (evals[k].fn = "exec_block" /\ evals[k].exc = NoExc) =>
      LET n == LeadCount(inp[ScanBefore(evals[k].at).open])
          w == WritesAt(evals[k].at)
      IN  /\ Len(w) = 1
          /\ w[1].text = Indented(SelectSeq(Split(evals[k].ret, NL), HasInk), n)
          /\ w[1].text = <<>> \/ w[1].text[Len(w[1].text)] = NL
          /\ \A i \in 1..Len(WrittenLines(w[1].text)) :
               /\ HasInk(WrittenLines(w[1].text)[i])
               /\ SubSeq(WrittenLines(w[1].text)[i], 1, n) = Spaces(n)

\* an indented block printed a blank line and a line that itself starts
\* with a blank
C7_Witness ==
  \E k \in 1..Len(evals) :
    /\ evals[k].fn = "exec_block"
    /\ evals[k].exc = NoExc
    /\ LeadCount(inp[ScanBefore(evals[k].at).open]) >= 1
    /\ \E i \in 1..(Len(Split(evals[k].ret, NL)) - 1) : Split(evals[k].ret, NL)[i] = <<>>
    /\ \E i \in 1..Len(Split(evals[k].ret, NL)) :
         /\ HasInk(Split(evals[k].ret, NL)[i])
         /\ Head(Split(evals[k].ret, NL)[i]) = SP
    /\ WritesAt(evals[k].at) # <<>>

(***************************************************************************)
(* C8.  Whitespace-only suppression: a line with markers read in state hdl *)
(* whose text after the substitutions is empty or all blanks causes no     *)
(* write at all.                                                           *)
(***************************************************************************)
C8_Suppressed ==
  \A i \in 1..Len(inp) :
    (IsInlineLine(i) /\ Completed(i)) =>
      (Blank(Reconstructed(inp[i], PutsAt(i))) => WritesAt(i) = <<>>)

\* a line that is one snippet with an empty result, and a line that still
\* holds a space after the substitutions, both without a write
C8_Witness ==
  /\ \E i \in 1..Len(inp) :
       /\ IsInlineLine(i) /\ Completed(i)
       /\ Len(EvalsAt(i)) = 1
       /\ Head(inp[i]) = BT
       /\ Reconstructed(inp[i], PutsAt(i)) = <<NL>>
       /\ WritesAt(i) = <<>>
  /\ \E i \in 1..Len(inp) :
       /\ IsInlineLine(i) /\ Completed(i)
       /\ Len(Reconstructed(inp[i], PutsAt(i))) >= 2
       /\ Blank(Reconstructed(inp[i], PutsAt(i)))
       /\ WritesAt(i) = <<>>
  /\ Len(out) >= 1

(***************************************************************************)
(* C9.  Search-path priority: once pre_context_run has run, sys.path       *)
(* starts with the given paths in the order given, ahead of every entry    *)
(* it held before.                                                         *)
(***************************************************************************)
C9_PathOrder ==
  (pc = "scan" /\ inp = <<>>) =>
    /\ Len(sys_path) >= Len(import_pathes)
    /\ SubSeq(sys_path, 1, Len(import_pathes)) = import_pathes

(***************************************************************************)
(* C10 as stated.  An inline snippet whose evaluation produces an empty or *)
(* falsy result (the value of an expression, the text printed by           *)
(* statements) is replaced by the empty string.                            *)
(***************************************************************************)
C10_FalsyIsEmpty ==
  \A k \in 1..Len(evals) :
    (/\ evals[k].fn = "exec_inline"
     /\ evals[k].exc = NoExc
     /\ \/ evals[k].mode = "eval" /\ Falsy(evals[k].val)
        \/ evals[k].mode = "exec" /\ evals[k].ret = <<>>)
    => evals[k].put = <<>>

(***************************************************************************)
(* C10 as amended.  An inline snippet for which exec_inline returns the    *)
(* empty string (an expression whose value has an empty text form, or      *)
(* statements that printed nothing) is replaced by the empty string; an    *)
(* expression is replaced by the text form of its value also when the      *)
(* value is falsy (0 gives the text 0, None the text None).  The line      *)
(* written holds these replacements.                                       *)
(***************************************************************************)
C10_EmptyResult ==
  \A i \in 1..Len(inp) :
    (IsInlineLine(i) /\ Completed(i)) =>
      /\ \A k \in 1..Len(EvalsAt(i)) :
           /\ EvalsAt(i)[k].ret = <<>> => EvalsAt(i)[k].put = <<>>
           /\ EvalsAt(i)[k].mode = "eval" => EvalsAt(i)[k].put = PyStr(EvalsAt(i)[k].val)
      /\ WritesAt(i) # <<>> =>
           WritesAt(i)[1].text = Reconstructed(inp[i], PutsAt(i))

\* a written line holds a snippet with an empty result, in each mode
C10_Witness ==
  /\ \E k \in 1..Len(evals) :
       /\ evals[k].fn = "exec_inline" /\ evals[k].mode = "exec"
       /\ evals[k].exc = NoExc /\ evals[k].ret = <<>>
       /\ WritesAt(evals[k].at) # <<>>
  /\ \E k \in 1..Len(evals) :
       /\ evals[k].fn = "exec_inline" /\ evals[k].mode = "eval"
       /\ evals[k].exc = NoExc /\ Falsy(evals[k].val) /\ evals[k].ret = <<>>
  /\ \E k \in 1..Len(evals) :
       /\ evals[k].fn = "exec_inline" /\ evals[k].mode = "eval"
       /\ evals[k].exc = NoExc /\ Falsy(evals[k].val) /\ evals[k].ret # <<>>
       /\ WritesAt(evals[k].at) # <<>>

(***************************************************************************)
(* C11.  Expression-first dispatch: an inline snippet that compiles as an  *)
(* expression is evaluated as one, once, and returns the text form of its  *)
(* value, also when the evaluation raises it is not run as statements; a   *)
(* snippet that does not compile as an expression is run as statements and *)
(* returns exactly the text it printed.                                    *)
(***************************************************************************)
\* what one evaluation of the expression of src prints
PrintsOnce(src) == PyEvalExpr(CompileEval(src).expr, EmptyDict).printed

C11_ExprFirst ==
  \A k \in 1..Len(evals) :
    evals[k].fn = "exec_inline" =>
      IF CompileEval(evals[k].src).ok
      THEN /\ evals[k].mode = "eval"
           /\ evals[k].exc = NoExc => evals[k].ret = PyStr(evals[k].val)
           /\ evals[k].printed = PrintsOnce(evals[k].src)
           /\ evals[k].nops <= 1
      ELSE /\ evals[k].mode # "eval"
           /\ evals[k].val = NoneV
           /\ evals[k].exc = NoExc =>
                (evals[k].mode = "exec" /\ evals[k].ret = evals[k].printed)

\* one pass evaluated an expression, ran statements, and then evaluated an
\* expression that raised
C11_Witness ==
  /\ pc = "raised"
  /\ \E k \in 1..Len(evals) :
       /\ evals[k].fn = "exec_inline" /\ evals[k].mode = "eval"
       /\ evals[k].exc = NoExc
  /\ \E k \in 1..Len(evals) :
       /\ evals[k].fn = "exec_inline" /\ evals[k].mode = "exec"
       /\ evals[k].exc = NoExc
  /\ \E k \in 1..Len(evals) :
       /\ evals[k].fn = "exec_inline" /\ evals[k].mode = "eval"
       /\ evals[k].exc # NoExc /\ CompileExec(evals[k].src).ok

(***************************************************************************)
(* C12.  Evaluation errors are terminal: a snippet that raises is the last *)
(* evaluation of the pass; the pass has raised with the snippet's own      *)
(* exception; the line of the snippet is the last line read; and nothing   *)
(* was written for that line, nor for any later one.                       *)
(***************************************************************************)
C12_Terminal ==
  \A k \in 1..Len(evals) :
    evals[k].exc # NoExc =>
      /\ k = Len(evals)
      /\ pc = "raised"
      /\ error = evals[k].exc
      /\ raised_by = evals[k].fn
      /\ evals[k].at = Len(inp)
      /\ \A w \in 1..Len(out) : out[w].at < evals[k].at

\* the second snippet of a line raised, after text was written for an
\* earlier line
C12_Witness ==
  /\ pc = "raised"
  /\ raised_by = "exec_inline"
  /\ Len(EvalsAt(Len(inp))) = 2
  /\ EvalsAt(Len(inp))[1].put # <<>>
  /\ out # <<>>

(***************************************************************************)
(* C13.  Fence handling: a line that is blanks and then the fence token,   *)
(* whatever follows the token, opens a block when read in state hdl and    *)
(* closes it when read in state block.  For an opening fence nothing is    *)
(* evaluated or written; for a closing fence the one evaluation is that of *)
(* the block body, which holds nothing of either fence line, and the one   *)
(* write is the result of the block.                                       *)
(***************************************************************************)
\* the lines from..to with n leading characters cut off each
RECURSIVE BodyOf(_, _, _)
BodyOf(from, to, n) ==
  IF from > to THEN <<>>
  ELSE SliceFrom(inp[from], n) \o BodyOf(from + 1, to, n)

\* the body of the block that line i closes
ClosedBody(i) ==
  BodyOf(ScanBefore(i).open + 1, i - 1, LeadCount(inp[ScanBefore(i).open]))

C13_Fences ==
  /\ (pc = "scan" \/ EndedAtEOF) => state = ScanFold(inp, 1, "hdl", 0).st
  /\ \A i \in 1..Len(inp) :
       FenceShaped(inp[i]) =>
         LET sb == ScanBefore(i)
             e == EvalsAt(i)
             w == WritesAt(i)
         IN  IF sb.st = "hdl"
             THEN e = <<>> /\ w = <<>>
             ELSE /\ Len(e) = 1
                  /\ e[1].fn = "exec_block"
                  /\ e[1].src = BodyOf(sb.open + 1, i - 1, LeadCount(inp[sb.open]))
                  /\ IF Completed(i)
                     THEN /\ Len(w) = 1
                          /\ w[1].text =
                               Indented(SelectSeq(Split(e[1].ret, NL), HasInk),
                                        LeadCount(inp[sb.open]))
                     ELSE w = <<>>

\* a fence line with a snippet after the token opened a block, the same
\* line closed it, and the block wrote text
C13_Witness ==
  /\ pc = "returned"
  /\ \E i, j \in 1..Len(inp) :
       /\ i < j
       /\ inp[i] = inp[j]
       /\ FenceShaped(inp[i])
       /\ Strip(inp[i]) # Fence
       /\ ScanBefore(i).st = "hdl"
       /\ ScanBefore(j).st = "block"
       /\ ScanBefore(j).open = i
       /\ WritesAt(j) # <<>>
       /\ WritesAt(j)[1].text # <<>>

(***************************************************************************)
(* C14.  Evaluation order: when every line read has been processed, the    *)
(* evaluations made are exactly the snippets of the document, each once    *)
(* and in document order: the fragments of an inline line left to right at *)
(* that line, the body of a block at its closing fence.  A line read       *)
(* inside a block causes no evaluation and no write.                       *)
(***************************************************************************)
\* the texts between the marker pairs of line (1st-2nd, 3rd-4th, ...)
FragmentsOf(line) ==
  LET pieces == Split(line, BT)
  IN  [k \in 1..((Len(pieces) - 1) \div 2) |-> pieces[2 * k]]

Call(at, fn, src) == [at |-> at, fn |-> fn, src |-> src]

\* the calls the fragments of line i are to cause
InlineCalls(i) ==
  LET f == FragmentsOf(inp[i])
  IN  [k \in 1..Len(f) |-> Call(i, "exec_inline", f[k])]

\* the calls the lines from line i on are to cause, line i being read in
\* state st, inside the block opened by line open if any
RECURSIVE ExpectedFrom(_, _, _)
ExpectedFrom(i, st, open) ==
  IF i > Len(inp) THEN <<>>
  ELSE IF FenceShaped(inp[i])
  THEN IF st = "hdl" THEN ExpectedFrom(i + 1, "block", i)
       ELSE <<Call(i, "exec_block", BodyOf(open + 1, i - 1, LeadCount(inp[open])))>>
            \o ExpectedFrom(i + 1, "hdl", 0)
  ELSE IF st = "hdl" THEN InlineCalls(i) \o ExpectedFrom(i + 1, st, open)
  ELSE ExpectedFrom(i + 1, st, open)

Expected == ExpectedFrom(1, "hdl", 0)

Called == [k \in 1..Len(evals) |-> Call(evals[k].at, evals[k].fn, evals[k].src)]

InBlock(i) == ScanBefore(i).st = "block" /\ ~FenceShaped(inp[i])

C14_Order ==
  (pc = "scan" \/ EndedAtEOF) =>
    /\ Called = Expected
    /\ \A i \in 1..Len(inp) : InBlock(i) => WritesAt(i) = <<>>

\* a completed pass: a block, then a line of three fragments
C14_Witness ==
  /\ pc = "returned"
  /\ Len(evals) >= 4
  /\ evals[1].fn = "exec_block"
  /\ evals[1].src # <<>>
  /\ Len(EvalsAt(Len(inp))) >= 3
  /\ \E i \in 1..Len(inp) : InBlock(i)

(***************************************************************************)
(* C15.  Scan-state invariant: a pass starts in state hdl; in state hdl    *)
(* the accumulator is empty and the indentation 0; in state block the      *)
(* indentation is the number of blanks the opening fence line starts with, *)
(* the same at every line of the block, and the accumulator holds the      *)
(* lines read since that fence and nothing of an earlier block.            *)
(***************************************************************************)
C15_ScanState ==
  /\ (pc = "scan" /\ inp = <<>>) => state = "hdl"
  /\ state = "hdl" => (py_block_snippet = <<>> /\ indentation = 0)
  /\ ((pc = "scan" \/ EndedAtEOF) /\ state = "block") =>
       LET open == OpenAt
       IN  /\ open > 0
           /\ indentation = LeadCount(inp[open])
           /\ py_block_snippet = BodyOf(open + 1, Len(inp), indentation)

\* a block with a body was closed and a second block, indented, has just
\* been opened
C15_Witness ==
  /\ pc = "scan"
  /\ state = "block"
  /\ indentation = 1
  /\ py_block_snippet = <<>>
  /\ \E k \in 1..Len(evals) :
       /\ evals[k].fn = "exec_block" /\ evals[k].src # <<>>
       /\ LeadCount(inp[ScanBefore(evals[k].at).open]) = 0

(***************************************************************************)
(* C16.  Inline splicing: on a line with markers read in state hdl the     *)
(* markers pair up left to right; the snippets evaluated are the texts     *)
(* between the pairs; the line written is the text outside the pairs,      *)
(* unchanged, with each whole pair replaced by what its snippet returned;  *)
(* an unpaired last marker and the text after it stay; a line with one     *)
(* marker is written unchanged.  (A line left blank is not written.)       *)
(***************************************************************************)
SrcsAt(i) == LET e == EvalsAt(i) IN [k \in 1..Len(e) |-> e[k].src]
RetsAt(i) == LET e == EvalsAt(i) IN [k \in 1..Len(e) |-> e[k].ret]
MarkerCount(line) == Len(Split(line, BT)) - 1

C16_Splice ==
  \A i \in 1..Len(inp) :
    (IsInlineLine(i) /\ Completed(i)) =>
      LET line == Reconstructed(inp[i], RetsAt(i))
          w == WritesAt(i)
      IN  /\ SrcsAt(i) = FragmentsOf(inp[i])
          /\ w = IF Blank(line) THEN <<>> ELSE <<Write(i, line)>>
          /\ MarkerCount(inp[i]) = 1 => w = <<Write(i, inp[i])>>

\* a line with an odd number of markers, three of its pairs replaced, was
\* written with its last marker, and a line with one marker was written
C16_Witness ==
  /\ \E i \in 1..Len(inp) :
       /\ IsInlineLine(i) /\ Completed(i)
       /\ MarkerCount(inp[i]) % 2 = 1
       /\ Len(EvalsAt(i)) >= 3
       /\ WritesAt(i) # <<>>
       /\ Contains(WritesAt(i)[1].text, BT)
       /\ WritesAt(i)[1].text # inp[i]
  /\ \E i \in 1..Len(inp) :
       /\ IsInlineLine(i) /\ Completed(i)
       /\ MarkerCount(inp[i]) = 1
       /\ WritesAt(i) # <<>>

(***************************************************************************)
(* C17.  Block body accumulation: each line read inside a block goes into  *)
(* the accumulator without its first N characters, whatever they are, N    *)
(* being the indentation of the block; a line of at most N characters      *)
(* contributes nothing and raises nothing.  The body given to exec_block   *)
(* is these cut lines, in order.                                           *)
(***************************************************************************)
\* line without its first n characters; empty when it has no more than n
Cut(line, n) ==
  [j \in 1..(IF Len(line) > n THEN Len(line) - n ELSE 0) |-> line[j + n]]

\* the lines after line open up to line last, each cut by the blanks of open
CutLines(open, last) ==
  Concat([j \in 1..(last - open) |-> Cut(inp[open + j], LeadCount(inp[open]))])

C17_Accumulate ==
  /\ \A k \in 1..Len(evals) :
       evals[k].fn = "exec_block" =>
         evals[k].src = CutLines(ScanBefore(evals[k].at).open, evals[k].at - 1)
  /\ (pc = "scan" /\ state = "block") =>
       py_block_snippet = CutLines(OpenAt, Len(inp))
  /\ (pc = "raised" /\ raised_by # "parse") => ~InBlock(Len(inp))

\* a block indented by one was handed a body made of a line no longer than
\* the indentation and of a line that starts with another character than a
\* blank
C17_Witness ==
  \E k \in 1..Len(evals) :
    /\ evals[k].fn = "exec_block"
    /\ LeadCount(inp[ScanBefore(evals[k].at).open]) = 1
    /\ evals[k].src # <<>>
    /\ \E i, j \in (ScanBefore(evals[k].at).open + 1)..(evals[k].at - 1) :
         /\ Len(inp[i]) <= 1
         /\ ~IsSpace(Head(inp[j]))

(***************************************************************************)
(* C18.  Lifecycle ordering: within a pass a line is read, and a snippet   *)
(* evaluated, only while the pass is scanning, which is after              *)
(* pre_context_run has completed and seeded the context with sys, and      *)
(* before the context is dropped at the end of the pass.                   *)
(***************************************************************************)
C18_Lifecycle ==
  [][((inp' # inp \/ evals' # evals) /\ passes' = passes) =>
       (pc = "scan" /\ "sys" \in DOMAIN global_dict /\ error = NoExc)]_vars

\* a second pass, given search paths, evaluated snippets and returned
C18_Witness ==
  /\ passes = 2
  /\ pc = "returned"
  /\ import_pathes # <<>>
  /\ sys_path # BasePath
  /\ Len(evals) >= 2
  /\ global_dict = EmptyDict

(***************************************************************************)
(* C20.  An inline snippet that compiles as an expression is evaluated     *)
(* without redirection: the call leaves sys.stdout as it found it, all the *)
(* expression prints reaches the real standard output (the console) and    *)
(* none of it the replacement text, which is the text form of the value.   *)
(***************************************************************************)
IsExprCall(e) == e.fn = "exec_inline" /\ CompileEval(e.src).ok

\* what the expressions evaluated so far in the pass printed
ExprPrints ==
  Concat([k \in 1..Len(evals) |->
            IF IsExprCall(evals[k]) THEN evals[k].printed ELSE <<>>])

C20_RealStream ==
  /\ \A k \in 1..Len(evals) :
       IsExprCall(evals[k]) =>
         /\ evals[k].so = evals[k].so0
         /\ evals[k].exc = NoExc => evals[k].put = PyStr(evals[k].val)
  /\ console = ExprPrints

(***************************************************************************)
(* C19.  Nested capture behaves as a stack: while no call has raised, the  *)
(* stream installed is the buffer of the innermost call in progress (so    *)
(* the outer buffer is installed again when an inner call returns); a call *)
(* returns exactly what its own snippet printed, nothing of a call inside  *)
(* or around it; and it leaves installed the stream it found.              *)
(***************************************************************************)
C19_Stack ==
  /\ frames # <<>> => sys_stdout = frames[Len(frames)].s
  /\ \A i \in 2..Len(frames) : frames[i].old_stdout = frames[i - 1].s
  /\ \A i \in 1..Len(frames) : frames[i].text = frames[i].own
  /\ \A k \in 1..Len(returns) :
       /\ returns[k].res = returns[k].own
       /\ returns[k].so = returns[k].old_stdout

\* an inner call that printed has returned into an outer call that printed
\* before and after it, and the outer call has returned
C19_Witness ==
  /\ frames = <<>>
  /\ sys_stdout = RealStdout
  /\ \E i, o \in 1..Len(returns) :
       /\ i < o
       /\ returns[i].depth = 2 /\ returns[i].res # <<>>
       /\ returns[o].depth = 1 /\ Len(returns[o].res) = 4
       /\ returns[o].res[1] # returns[i].res[1]

====
